---- MODULE Spec2Model ----
(***************************************************************************)
(* ChannelScanner of welle-cli: the scan loop ChannelScanner::run, the     *)
(* RadioControllerInterface callbacks that update the shared scan state    *)
(* under ChannelScanner::mtx, and the condition variable ChannelScanner::cv*)
(* the loop waits on.  The RadioReceiver (decoding engine), the input      *)
(* device and the Channels catalog are the environment.                    *)
(***************************************************************************)
EXTENDS Integers, Sequences, FiniteSets, TLC

\* ---------------------------------------------------------------- bounds
NumChannels == 2        \* length of the channel catalog walked by run()
MaxCount == 2           \* event counters saturate here
MaxLabelLen == 3        \* longest label handed to the normalization
MaxComponents == 3      \* most components of a service
MaxReports == 1         \* most reports written to the output stream

\* ------------------------------------------------------------- catalog
Channel == 1..NumChannels

\* Channels::getFrequency: band III raster, 5A = 174.928 MHz, 1.712 MHz apart
getFrequency(c) == 174928000 + (c - 1) * 1712000

\* Channels::getNextChannel: the next catalog entry (NumChannels + 1 = "")
getNextChannel(c) == c + 1

\* ------------------------------------------------- what a multiplex sends
SPACE == 32

\* values a receiver tuned to channel c can report
SnrOf(c) == c
EidOf(c) == c
SidOf(c) == c
LabelOf(c) == <<64 + c, SPACE>>

\* one service of the ensemble on channel c, as RadioReceiver reports it:
\* two components, the first without a subchannel (subChId = -1)
ServiceOf(c) ==
    [serviceId |-> SidOf(c),
     serviceLabel |-> <<96 + c, SPACE>>,
     components |-> << [subChId |-> -1, bitrate |-> 64],
                       [subChId |-> c, bitrate |-> 128] >>]

\* RadioReceiver::getServiceList after the dwell: the services of the ensemble
ServiceLists(c) == { <<ServiceOf(c)>> }

\* the receiver thread: outside a callback, in a callback that has not yet
\* passed its lock_guard, in a callback that holds the lock
NoCb == "none"
Called == "called"
Running == "running"

\* ------------------------------------------------------ pure helpers
\* the bytes a label is made of here: tab, blank, 'A', and 0xA9, the last
\* byte of a two-byte UTF-8 character
LabelBytes == {9, 32, 65, 169}

\* a byte above 0x7F is a negative value of plain char
NonAscii == {c \in LabelBytes : c > 127}

\* [](int c) { return !isspace(c); } applied to a char of a std::string:
\* isspace() of the "C" locale for the values 0..127; a negative char reaches
\* isspace() as a negative int, for which its behaviour is undefined: ub is
\* the set of such bytes for which this build's isspace() answers true
isspace(c, ub) ==
    IF c > 127 THEN c \in ub ELSE c \in {9, 10, 11, 12, 13, 32}

\* s.erase(find_if(s.rbegin(), s.rend(), !isspace).base(), s.end())
RECURSIVE TrimTrailing(_, _)
TrimTrailing(s, ub) ==
    IF s = <<>> THEN <<>>
    ELSE IF isspace(s[Len(s)], ub)
         THEN TrimTrailing(SubSeq(s, 1, Len(s) - 1), ub)
    ELSE s

\* the component loop without its break: the last valid subchannel wins
RECURSIVE FirstValidBitrate_noBreak(_)
FirstValidBitrate_noBreak(comps) ==
    IF comps = <<>> THEN 0
    ELSE IF FirstValidBitrate_noBreak(Tail(comps)) # 0
         THEN FirstValidBitrate_noBreak(Tail(comps))
    ELSE IF Head(comps).subChId # -1 THEN Head(comps).bitrate
    ELSE 0

\* bitrate of the first component whose subchannel id is valid, else 0
RECURSIVE FirstValidBitrate(_)
FirstValidBitrate(comps) ==
    IF comps = <<>> THEN 0
    ELSE IF Head(comps).subChId # -1 THEN Head(comps).bitrate
    ELSE FirstValidBitrate(Tail(comps))

\* the ServiceInfo built for one entry of the service list
MakeServiceInfo(s, ub) ==
    [sid |-> s.serviceId,
     label |-> TrimTrailing(s.serviceLabel, ub),
     bitrate_kbps |-> FirstValidBitrate(s.components)]

RECURSIVE MakeServices(_, _)
MakeServices(list, ub) ==
    IF list = <<>> THEN <<>>
    ELSE <<MakeServiceInfo(Head(list), ub)>> \o MakeServices(Tail(list), ub)

\* hex digits are rendered uppercase: '0'..'9', 'A'..'F'
HexDigit(d) == IF d < 10 THEN 48 + d ELSE 55 + d

\* operator<< of an unsigned value under std::hex: every digit of the value,
\* the most significant first
RECURSIVE HexDigits(_)
HexDigits(v) ==
    IF v < 16 THEN <<HexDigit(v)>>
    ELSE HexDigits(v \div 16) \o <<HexDigit(v % 16)>>

\* a field of exactly width characters: the low digits only
SetwFill_cuts(s, width) ==
    IF Len(s) >= width THEN SubSeq(s, Len(s) - width + 1, Len(s))
    ELSE [i \in 1..(width - Len(s)) |-> 48] \o s

\* setw(width) << setfill('0'): filled on the left up to width, never cut
SetwFill(s, width) ==
    IF Len(s) >= width THEN s
    ELSE [i \in 1..(width - Len(s)) |-> 48] \o s

\* static string hex_str(uint32_t value, int width = 4)
HexWidth == 4
hex_str(value, width) == <<48, 120>> \o SetwFill(HexDigits(value), width)

\* largest value of uint16_t, the type of ScanResult::ensemble_id
MaxUint16 == 65535

\* saturating increment of a per-key counter
Bump(f, k) == [f EXCEPT ![k] = IF @ < MaxCount THEN @ + 1 ELSE @]

Modes == {"quick", "full"}

\* ---------------------------------------------------------------- state
VARIABLES
    pc,             \* position of run()
    idx,            \* channelName: catalog cursor
    has_signal,     \* local of run()
    got_sync,       \* local of run()
    serviceList,    \* local of run()
    results,        \* ChannelScanner::results
    mtx,            \* ChannelScanner::mtx: "free", "scanner" or "engine"
    notified,       \* ChannelScanner::cv: a notify_all reached the waiter
    timed_out,      \* status of the last cv.wait_until
    signal_present, synced, current_snr, current_eid, current_label,
    detected_sids,  \* the shared scan state
    rx,             \* the live RadioReceiver: "none", "quick" or "full"
    cb,             \* the callback the receiver thread is executing
    deadline_elapsed, \* steady_clock::now() >= deadline of the current wait
    wait_ret,       \* value of the predicate when the wait returned, kept
                    \* until run() has branched on it
    presence_seen,  \* onSignalPresence(true) ran before the presence
                    \* deadline, kept until run() has branched on has_signal
    sync_seen,      \* onSyncChange(true) ran before the sync wait returned
    outcome,        \* diagnostic written for each channel
    resets, pwaits, swaits, advances, \* per-channel event counts
    starts, stops,  \* per-instance counts of restart() and stop()
    out             \* the stream printJsonReport writes to: its documents

scanState == <<signal_present, synced, current_snr, current_eid,
               current_label, detected_sids>>
locals == <<has_signal, got_sync, serviceList>>
counters == <<resets, pwaits, swaits, advances, starts, stops>>
history == <<wait_ret, presence_seen, sync_seen, outcome>>
vars == <<pc, idx, locals, results, mtx, notified, timed_out, scanState,
          rx, cb, deadline_elapsed, history, counters, out>>

Init ==
    /\ pc = "loop"
    /\ idx = 1
    /\ has_signal = FALSE
    /\ got_sync = FALSE
    /\ serviceList = <<>>
    /\ results = <<>>
    /\ mtx = "free"
    /\ notified = FALSE
    /\ timed_out = FALSE
    /\ signal_present = FALSE
    /\ synced = FALSE
    /\ current_snr = 0
    /\ current_eid = 0
    /\ current_label = <<>>
    /\ detected_sids = {}
    /\ rx = "none"
    /\ cb = NoCb
    /\ deadline_elapsed = FALSE
    /\ wait_ret = FALSE
    /\ presence_seen = FALSE
    /\ sync_seen = FALSE
    /\ outcome = [c \in Channel |-> "pending"]
    /\ resets = [c \in Channel |-> 0]
    /\ pwaits = [c \in Channel |-> 0]
    /\ swaits = [c \in Channel |-> 0]
    /\ advances = [c \in Channel |-> 0]
    /\ starts = [c \in Channel |-> [m \in Modes |-> 0]]
    /\ stops = [c \in Channel |-> [m \in Modes |-> 0]]
    /\ out = <<>>


\* ------------------------------------------------------- the scan loop
\* while (!channelName.empty()): one more channel
LoopHead ==
    /\ pc = "loop"
    /\ idx <= NumChannels
    /\ pc' = "reset_lock"
    /\ UNCHANGED <<out, idx, locals, results, mtx, notified, timed_out, scanState,
                   rx, cb, deadline_elapsed, history, counters>>

\* while (!channelName.empty()): the catalog is exhausted, run() returns
LoopExit ==
    /\ pc = "loop"
    /\ idx > NumChannels
    /\ pc' = "done"
    /\ UNCHANGED <<out, idx, locals, results, mtx, notified, timed_out, scanState,
                   rx, cb, deadline_elapsed, history, counters>>

\* lock_guard<mutex> lock(mtx) taken by run(): from position p to position q
ScannerLock(p, q) ==
    /\ pc = p
    /\ mtx = "free"
    /\ mtx' = "scanner"
    /\ pc' = q
    /\ UNCHANGED <<out, idx, locals, results, notified, timed_out, scanState,
                   rx, cb, deadline_elapsed, history, counters>>

ResetLock == ScannerLock("reset_lock", "reset")

\* the reset block without current_snr = 0.0f
ResetState_keepsSnr ==
    /\ pc = "reset"
    /\ signal_present' = FALSE
    /\ synced' = FALSE
    /\ current_eid' = 0
    /\ current_label' = <<>>
    /\ detected_sids' = {}
    /\ mtx' = "free"
    /\ pc' = "retune"
    /\ resets' = Bump(resets, idx)
    /\ UNCHANGED <<out, idx, locals, results, notified, timed_out, rx, cb,
                   current_snr,
                   deadline_elapsed, history, pwaits, swaits, advances,
                   starts, stops>>

\* the reset block without the two ensemble fields
ResetState_keepsEnsemble ==
    /\ pc = "reset"
    /\ signal_present' = FALSE
    /\ synced' = FALSE
    /\ current_snr' = 0
    /\ detected_sids' = {}
    /\ mtx' = "free"
    /\ pc' = "retune"
    /\ resets' = Bump(resets, idx)
    /\ UNCHANGED <<out, idx, locals, results, notified, timed_out, rx, cb,
                   current_eid, current_label,
                   deadline_elapsed, history, pwaits, swaits, advances,
                   starts, stops>>

\* the reset block with results.clear() among its statements
ResetState_clearsResults ==
    /\ pc = "reset"
    /\ signal_present' = FALSE
    /\ synced' = FALSE
    /\ current_snr' = 0
    /\ current_eid' = 0
    /\ current_label' = <<>>
    /\ detected_sids' = {}
    /\ results' = <<>>
    /\ mtx' = "free"
    /\ pc' = "retune"
    /\ resets' = Bump(resets, idx)
    /\ UNCHANGED <<out, idx, locals, notified, timed_out, rx, cb,
                   deadline_elapsed, history, pwaits, swaits, advances,
                   starts, stops>>

\* Reset per-channel state
ResetState ==
    /\ pc = "reset"
    /\ signal_present' = FALSE
    /\ synced' = FALSE
    /\ current_snr' = 0
    /\ current_eid' = 0
    /\ current_label' = <<>>
    /\ detected_sids' = {}
    /\ mtx' = "free"
    /\ pc' = "retune"
    /\ resets' = Bump(resets, idx)
    /\ UNCHANGED <<out, idx, locals, results, notified, timed_out, rx, cb,
                   deadline_elapsed, history, pwaits, swaits, advances,
                   starts, stops>>

\* input.setFrequency(freq); input.reset(); sleep_for(500 ms)
Retune ==
    /\ pc = "retune"
    /\ pc' = "start_quick"
    /\ UNCHANGED <<out, idx, locals, results, mtx, notified, timed_out, scanState,
                   rx, cb, deadline_elapsed, history, counters>>

\* RadioReceiver rx(...); rx.restart(mode); deadline = now() + ...
StartReceiver(p, mode, q) ==
    /\ pc = p
    /\ rx' = mode
    /\ starts' = [starts EXCEPT ![idx] = Bump(@, mode)]
    /\ deadline_elapsed' = FALSE
    /\ pc' = q
    /\ UNCHANGED <<out, idx, locals, results, mtx, notified, timed_out, scanState,
                   cb, history, resets, pwaits, swaits, advances, stops>>

\* Phase 1: bool has_signal = false; rx.restart(true)
StartQuick ==
    /\ StartReceiver("start_quick", "quick", "p1_lock")

\* unique_lock<mutex> lock(mtx) of a wait
WaitLock(p, q) ==
    /\ pc = p
    /\ mtx = "free"
    /\ mtx' = "scanner"
    /\ timed_out' = FALSE
    /\ pc' = q
    /\ UNCHANGED <<out, idx, locals, results, notified, scanState,
                   rx, cb, deadline_elapsed, history, counters>>

\* cv.wait_until: the predicate is false and the deadline was not reported:
\* release the lock and block
WaitBlock(p, pred, q) ==
    /\ pc = p
    /\ ~pred
    /\ ~timed_out
    /\ mtx' = "free"
    /\ notified' = FALSE
    /\ pc' = q
    /\ UNCHANGED <<out, idx, locals, results, timed_out, scanState,
                   rx, cb, deadline_elapsed, history, counters>>

\* cv.wait_until: a blocked waiter was notified and takes the lock again
WakeNotified(p, q) ==
    /\ pc = p
    /\ notified
    /\ mtx = "free"
    /\ mtx' = "scanner"
    /\ notified' = FALSE
    /\ timed_out' = deadline_elapsed
    /\ pc' = q
    /\ UNCHANGED <<out, idx, locals, results, scanState,
                   rx, cb, deadline_elapsed, history, counters>>

\* cv.wait_until: the deadline ended the blocking
WakeTimeout(p, q) ==
    /\ pc = p
    /\ deadline_elapsed
    /\ mtx = "free"
    /\ mtx' = "scanner"
    /\ notified' = FALSE
    /\ timed_out' = TRUE
    /\ pc' = q
    /\ UNCHANGED <<out, idx, locals, results, scanState,
                   rx, cb, deadline_elapsed, history, counters>>

\* cv.wait_until: a spurious wakeup
WakeSpurious(p, q) ==
    /\ pc = p
    /\ ~notified
    /\ ~deadline_elapsed
    /\ mtx = "free"
    /\ mtx' = "scanner"
    /\ timed_out' = FALSE
    /\ pc' = q
    /\ UNCHANGED <<out, idx, locals, results, notified, scanState,
                   rx, cb, deadline_elapsed, history, counters>>

\* steady_clock passes the deadline of the wait in progress
DeadlineElapses ==
    /\ pc \in {"p1_lock", "p1_check", "p1_blocked",
               "p2_lock", "p2_check", "p2_blocked"}
    /\ ~deadline_elapsed
    /\ deadline_elapsed' = TRUE
    /\ UNCHANGED <<out, pc, idx, locals, results, mtx, notified, timed_out,
                   scanState, rx, cb, history, counters>>

PresenceWaitLock == WaitLock("p1_lock", "p1_check")
PresenceWaitBlock == WaitBlock("p1_check", signal_present, "p1_blocked")
PresenceWakeNotified == WakeNotified("p1_blocked", "p1_check")
PresenceWakeTimeout == WakeTimeout("p1_blocked", "p1_check")
PresenceWakeSpurious == WakeSpurious("p1_blocked", "p1_check")

\* cv.wait_until returns; has_signal = signal_present; the lock is released
PresenceWaitReturn ==
    /\ pc = "p1_check"
    /\ signal_present \/ timed_out
    /\ wait_ret' = signal_present
    /\ has_signal' = signal_present
    /\ mtx' = "free"
    /\ pwaits' = Bump(pwaits, idx)
    /\ timed_out' = FALSE
    /\ deadline_elapsed' = FALSE
    /\ pc' = "stop_quick"
    /\ UNCHANGED <<out, idx, got_sync, serviceList, results, notified,
                   scanState, rx, cb,
                   presence_seen, sync_seen, outcome,
                   resets, swaits, advances, starts, stops>>


\* a path that leaves its receiver running
StopReceiver_skipped(p, mode, q) ==
    /\ pc = p
    /\ pc' = q
    /\ UNCHANGED <<out, idx, locals, results, mtx, notified, timed_out, scanState,
                   rx, cb, deadline_elapsed, history, counters>>

\* rx.stop(): returns once the receiver thread executes no callback; none
\* is delivered afterwards
StopReceiver(p, mode, q) ==
    /\ pc = p
    /\ cb = NoCb
    /\ rx' = "none"
    /\ stops' = [stops EXCEPT ![idx] = Bump(@, mode)]
    /\ pc' = q
    /\ UNCHANGED <<out, idx, locals, results, mtx, notified, timed_out, scanState,
                   cb, deadline_elapsed, history, resets, pwaits, swaits,
                   advances, starts>>

\* phase 1 left without rx.stop()
StopQuick_skipped == StopReceiver_skipped("stop_quick", "quick", "branch_signal")

StopQuick == StopReceiver("stop_quick", "quick", "branch_signal")

\* leaving a channel with the cursor moved two entries on
LeaveChannel_skipsNext(p, d) ==
    /\ pc = p
    /\ outcome' = [outcome EXCEPT ![idx] = d]
    /\ advances' = Bump(advances, idx)
    /\ idx' = getNextChannel(getNextChannel(idx))
    /\ has_signal' = FALSE
    /\ got_sync' = FALSE
    /\ serviceList' = <<>>
    /\ wait_ret' = FALSE
    /\ presence_seen' = FALSE
    /\ sync_seen' = FALSE
    /\ pc' = "loop"
    /\ UNCHANGED <<out, results, mtx, notified, timed_out,
                   scanState, rx, cb, deadline_elapsed,
                   resets, pwaits, swaits, starts, stops>>

\* leaving a channel: the diagnostic d is written and the cursor advances
LeaveChannel(p, d) ==
    /\ pc = p
    /\ outcome' = [outcome EXCEPT ![idx] = d]
    /\ advances' = Bump(advances, idx)
    /\ idx' = getNextChannel(idx)
    /\ has_signal' = FALSE
    /\ got_sync' = FALSE
    /\ serviceList' = <<>>
    /\ wait_ret' = FALSE
    /\ presence_seen' = FALSE
    /\ sync_seen' = FALSE
    /\ pc' = "loop"
    /\ UNCHANGED <<out, results, mtx, notified, timed_out,
                   scanState, rx, cb, deadline_elapsed,
                   resets, pwaits, swaits, starts, stops>>

\* "no signal" followed by continue without getNextChannel()
NoSignal_retry ==
    /\ pc = "branch_signal"
    /\ ~has_signal
    /\ pc' = "loop"
    /\ UNCHANGED <<out, idx, locals, results, mtx, notified, timed_out, scanState,
                   rx, cb, deadline_elapsed, history, counters>>

\* if (!has_signal) { "no signal"; channelName = getNextChannel(); continue; }
NoSignal ==
    /\ ~has_signal
    /\ LeaveChannel("branch_signal", "no_signal")

\* if (!has_signal) is not taken: phase 2
HasSignal ==
    /\ pc = "branch_signal"
    /\ has_signal
    /\ pc' = "clear_lock"
    /\ wait_ret' = FALSE
    /\ presence_seen' = FALSE
    /\ UNCHANGED <<out, idx, locals, results, mtx, notified, timed_out, scanState,
                   rx, cb, deadline_elapsed, sync_seen, outcome, counters>>

\* the clear of synced entered without lock_guard<mutex> lock(mtx)
ClearSyncLock_missing ==
    /\ pc = "clear_lock"
    /\ pc' = "clear_sync"
    /\ UNCHANGED <<out, idx, locals, results, mtx, notified, timed_out, scanState,
                   rx, cb, deadline_elapsed, history, counters>>

ClearSyncLock == ScannerLock("clear_lock", "clear_sync")

\* phase 2 entered without synced = false
ClearSync_keepsSynced ==
    /\ pc = "clear_sync"
    /\ mtx' = "free"
    /\ pc' = "start_full"
    /\ UNCHANGED <<out, idx, locals, results, notified, timed_out, scanState,
                   rx, cb, deadline_elapsed, history, counters>>

\* Reset sync flag before restarting in full-receive mode
ClearSync ==
    /\ pc = "clear_sync"
    /\ synced' = FALSE
    /\ mtx' = "free"
    /\ pc' = "start_full"
    /\ UNCHANGED <<out, idx, locals, results, notified, timed_out, signal_present,
                   current_snr, current_eid, current_label, detected_sids,
                   rx, cb, deadline_elapsed, history, counters>>

\* input.reset(); RadioReceiver rx(...); rx.restart(false)
StartFull ==
    /\ StartReceiver("start_full", "full", "p2_lock")

SyncWaitLock == WaitLock("p2_lock", "p2_check")
SyncWaitBlock == WaitBlock("p2_check", synced, "p2_blocked")
SyncWakeNotified == WakeNotified("p2_blocked", "p2_check")
SyncWakeTimeout == WakeTimeout("p2_blocked", "p2_check")
SyncWakeSpurious == WakeSpurious("p2_blocked", "p2_check")

\* cv.wait_until returns; its result is dropped and the lock is released
SyncWaitReturn ==
    /\ pc = "p2_check"
    /\ synced \/ timed_out
    /\ wait_ret' = synced
    /\ mtx' = "free"
    /\ swaits' = Bump(swaits, idx)
    /\ timed_out' = FALSE
    /\ deadline_elapsed' = FALSE
    /\ pc' = "read_lock"
    /\ UNCHANGED <<out, idx, locals, results, notified, scanState,
                   rx, cb, presence_seen, sync_seen,
                   outcome, resets, pwaits, advances, starts, stops>>

ReadSyncLock == ScannerLock("read_lock", "read_sync")

\* bool got_sync; { lock_guard<mutex> lock(mtx); got_sync = synced; }
ReadSync ==
    /\ pc = "read_sync"
    /\ got_sync' = synced
    /\ mtx' = "free"
    /\ pc' = "branch_sync"
    /\ UNCHANGED <<out, idx, has_signal, serviceList, results, notified,
                   timed_out, scanState, rx, cb, deadline_elapsed, history,
                   counters>>

\* if (!got_sync) { "signal but no sync"; rx.stop(); ...
NoSync ==
    /\ pc = "branch_sync"
    /\ ~got_sync
    /\ pc' = "stop_nosync"
    /\ wait_ret' = FALSE
    /\ UNCHANGED <<out, idx, locals, results, mtx, notified, timed_out, scanState,
                   rx, cb, deadline_elapsed, presence_seen, sync_seen,
                   outcome, counters>>

StopNoSync == StopReceiver("stop_nosync", "full", "advance_nosync")

\* ... channelName = getNextChannel(); continue; }
AdvanceNoSync == LeaveChannel("advance_nosync", "no_sync")

\* if (!got_sync) is not taken: sleep_for(seconds(3))
Dwell ==
    /\ pc = "branch_sync"
    /\ got_sync
    /\ pc' = "query"
    /\ wait_ret' = FALSE
    /\ UNCHANGED <<out, idx, locals, results, mtx, notified, timed_out, scanState,
                   rx, cb, deadline_elapsed, presence_seen, sync_seen,
                   outcome, counters>>

\* auto serviceList = rx.getServiceList()
QueryServices ==
    /\ pc = "query"
    /\ \E l \in ServiceLists(idx) : serviceList' = l
    /\ pc' = "snap_lock"
    /\ UNCHANGED <<out, idx, has_signal, got_sync, results, mtx, notified,
                   timed_out, scanState, rx, cb, deadline_elapsed, history,
                   counters>>

SnapshotLock == ScannerLock("snap_lock", "snapshot")

\* the ScanResult built from the scan state under the lock
SnapshotOf(ch, ub) ==
    [channel |-> ch,
     frequency_hz |-> getFrequency(ch),
     ensemble_id |-> current_eid,
     ensemble_label |-> TrimTrailing(current_label, ub),
     snr |-> current_snr,
     services |-> <<>>]

\* the snapshot dropped when synced is no longer true under the lock
SnapshotAndRecord_checksSynced ==
    /\ pc = "snapshot"
    /\ \E ub \in SUBSET NonAscii :
          results' = IF synced
                     THEN Append(results,
                            [SnapshotOf(idx, ub) EXCEPT
                                 !.services = MakeServices(serviceList, ub)])
                     ELSE results
    /\ mtx' = "free"
    /\ pc' = "stop_full"
    /\ UNCHANGED <<out, idx, locals, notified, timed_out,
                   scanState, rx, cb, deadline_elapsed, history, counters>>

\* the snapshot's lock scope stretched to the end of the phase 2 block, so
\* that rx.stop() is called with the lock held
SnapshotAndRecord_keepsLock ==
    /\ pc = "snapshot"
    /\ \E ub \in SUBSET NonAscii :
          results' = Append(results,
              [SnapshotOf(idx, ub) EXCEPT
                   !.services = MakeServices(serviceList, ub)])
    /\ pc' = "stop_full"
    /\ UNCHANGED <<out, idx, locals, mtx, notified, timed_out,
                   scanState, rx, cb, deadline_elapsed, history, counters>>

\* ScanResult result; { lock_guard<mutex> lock(mtx); result.channel = ... }
\* then, the lock released, the loop over serviceList, which reads only the
\* receiver and locals of run(), and results.push_back(result)
SnapshotAndRecord ==
    /\ pc = "snapshot"
    /\ \E ub \in SUBSET NonAscii :
          results' = Append(results,
              [SnapshotOf(idx, ub) EXCEPT
                   !.services = MakeServices(serviceList, ub)])
    /\ mtx' = "free"
    /\ pc' = "stop_full"
    /\ UNCHANGED <<out, idx, locals, notified, timed_out,
                   scanState, rx, cb, deadline_elapsed, history, counters>>

StopFull == StopReceiver("stop_full", "full", "advance")

\* channelName = channels.getNextChannel() at the end of the loop body
Advance == LeaveChannel("advance", "recorded")


\* ------------------------------------------- the receiver's callbacks
\* the receiver thread of the live instance calls a callback of the scanner:
\* lock_guard<mutex> lock(mtx) succeeds at once when the mutex is free
Invoke ==
    /\ rx # "none"
    /\ cb = NoCb
    /\ mtx = "free"
    /\ cb' = Running
    /\ mtx' = "engine"
    /\ UNCHANGED <<out, pc, idx, locals, results, notified, timed_out,
                   scanState, rx, deadline_elapsed, history, counters>>

\* the callback is called while run() holds the mutex: lock_guard blocks
InvokeBlocked ==
    /\ rx # "none"
    /\ cb = NoCb
    /\ mtx = "scanner"
    /\ cb' = Called
    /\ UNCHANGED <<out, pc, idx, locals, results, mtx, notified, timed_out,
                   scanState, rx, deadline_elapsed, history, counters>>

\* the blocked lock_guard<mutex> lock(mtx) of a callback gets the mutex
CallbackLock ==
    /\ cb = Called
    /\ mtx = "free"
    /\ mtx' = "engine"
    /\ cb' = Running
    /\ UNCHANGED <<out, pc, idx, locals, results, notified, timed_out,
                   scanState, rx, deadline_elapsed, history, counters>>

\* cv.notify_all(): reaches the scanner when it is blocked in a wait
NotifyAll == notified' = (pc \in {"p1_blocked", "p2_blocked"} \/ notified)

\* the callback holds the lock; it returns and releases it
CallbackBody ==
    /\ mtx = "engine"
    /\ cb = Running
    /\ mtx' = "free"
    /\ cb' = NoCb
    /\ UNCHANGED <<out, pc, idx, locals, results, timed_out, rx,
                   deadline_elapsed, wait_ret, outcome, counters>>

\* onSNR with the cv.notify_all() of its neighbours
onSNR_wakes(snr) ==
    /\ CallbackBody
    /\ current_snr' = snr
    /\ NotifyAll
    /\ UNCHANGED <<out, signal_present, synced, current_eid, current_label,
                   detected_sids, presence_seen, sync_seen>>

\* void ChannelScanner::onSNR(float snr)
onSNR(snr) ==
    /\ CallbackBody
    /\ current_snr' = snr
    /\ UNCHANGED <<out, signal_present, synced, current_eid, current_label,
                   detected_sids, notified, presence_seen, sync_seen>>

\* void ChannelScanner::onSyncChange(char isSync)
onSyncChange(isSync) ==
    /\ CallbackBody
    /\ synced' = isSync
    /\ NotifyAll
    /\ sync_seen' = (sync_seen \/ (isSync /\ pc \in {"p2_lock", "p2_blocked"}))
    /\ UNCHANGED <<out, signal_present, current_snr, current_eid, current_label,
                   detected_sids, presence_seen>>

\* void ChannelScanner::onSignalPresence(bool isSignal)
onSignalPresence(isSignal) ==
    /\ CallbackBody
    /\ signal_present' = isSignal
    /\ NotifyAll
    /\ presence_seen' =
         (presence_seen \/ (isSignal /\ ~deadline_elapsed
                                      /\ pc \in {"p1_lock", "p1_blocked"}))
    /\ UNCHANGED <<out, synced, current_snr, current_eid, current_label,
                   detected_sids, sync_seen>>

\* void ChannelScanner::onServiceDetected(uint32_t sId)
onServiceDetected(sId) ==
    /\ CallbackBody
    /\ detected_sids' = detected_sids \cup {sId}
    /\ UNCHANGED <<out, signal_present, synced, current_snr, current_eid,
                   current_label, notified, presence_seen, sync_seen>>

\* void ChannelScanner::onNewEnsemble(uint16_t eId)
onNewEnsemble(eId) ==
    /\ CallbackBody
    /\ current_eid' = eId
    /\ UNCHANGED <<out, signal_present, synced, current_snr, current_label,
                   detected_sids, notified, presence_seen, sync_seen>>

\* void ChannelScanner::onSetEnsembleLabel(DabLabel& label)
onSetEnsembleLabel(label) ==
    /\ CallbackBody
    /\ current_label' = label
    /\ UNCHANGED <<out, signal_present, synced, current_snr, current_eid,
                   detected_sids, notified, presence_seen, sync_seen>>

\* ------------------------------------------------------ specification
ScannerStep ==
    \/ LoopHead \/ LoopExit
    \/ ResetLock \/ ResetState \/ Retune
    \/ StartQuick
    \/ PresenceWaitLock \/ PresenceWaitBlock \/ PresenceWaitReturn
    \/ PresenceWakeNotified \/ PresenceWakeTimeout \/ PresenceWakeSpurious
    \/ StopQuick \/ NoSignal \/ HasSignal
    \/ ClearSyncLock \/ ClearSync \/ StartFull
    \/ SyncWaitLock \/ SyncWaitBlock \/ SyncWaitReturn
    \/ SyncWakeNotified \/ SyncWakeTimeout \/ SyncWakeSpurious
    \/ ReadSyncLock \/ ReadSync \/ NoSync \/ StopNoSync \/ AdvanceNoSync
    \/ Dwell \/ QueryServices \/ SnapshotLock \/ SnapshotAndRecord
    \/ StopFull \/ Advance

\* the callbacks a receiver tuned to the current channel makes
NotifySNR == onSNR(SnrOf(idx))
NotifySyncChange == \E isSync \in BOOLEAN : onSyncChange(isSync)
NotifySignalPresence == \E isSignal \in BOOLEAN : onSignalPresence(isSignal)
NotifyServiceDetected == onServiceDetected(SidOf(idx))
NotifyNewEnsemble == onNewEnsemble(EidOf(idx))
NotifySetEnsembleLabel == onSetEnsembleLabel(LabelOf(idx))

EngineStep ==
    \/ Invoke \/ InvokeBlocked \/ CallbackLock
    \/ NotifySNR \/ NotifySyncChange \/ NotifySignalPresence
    \/ NotifyServiceDetected \/ NotifyNewEnsemble \/ NotifySetEnsembleLabel

Next == ScannerStep \/ EngineStep \/ DeadlineElapses

Spec == Init /\ [][Next]_vars


\* the callback in progress returns
CallbackReturn ==
    \/ NotifySNR \/ NotifySyncChange \/ NotifySignalPresence
    \/ NotifyServiceDetected \/ NotifyNewEnsemble \/ NotifySetEnsembleLabel

\* fair scheduling: run() keeps being scheduled and gets the mutex and the
\* return of stop() when they are offered again and again; the clock passes
\* every deadline; a callback that can proceed does
FairSpec ==
    /\ Spec
    /\ SF_vars(ScannerStep)
    /\ WF_vars(DeadlineElapses)
    /\ WF_vars(CallbackLock \/ CallbackReturn)


\* ------------------------------------------------------ the JSON report
\* one entry of j["results"]
ReportEntry(r) ==
    [channel |-> r.channel,
     frequency_hz |-> r.frequency_hz,
     ensemble |-> [id |-> hex_str(r.ensemble_id, HexWidth),
                   label |-> r.ensemble_label],
     snr_db |-> r.snr,
     services |-> [k \in 1..Len(r.services) |->
                      [sid |-> hex_str(r.services[k].sid, HexWidth),
                       label |-> r.services[k].label,
                       bitrate_kbps |-> r.services[k].bitrate_kbps]]]

\* the document with the count of channels visited so far in its metadata
JsonReport_countsVisited ==
    [scan |-> [channels_scanned |-> Cardinality({c \in Channel : resets[c] > 0}),
               ensembles_found |-> Len(results)],
     results |-> [i \in 1..Len(results) |-> ReportEntry(results[i])]]

\* the document printJsonReport builds from results; the wall-clock
\* timestamp is left out
JsonReport ==
    [scan |-> [channels_scanned |-> NumChannels,
               ensembles_found |-> Len(results)],
     results |-> [i \in 1..Len(results) |-> ReportEntry(results[i])]]

\* void ChannelScanner::printJsonReport(std::ostream& out) const, called by
\* the thread that calls run(): before run() is entered or after it returned
printJsonReport ==
    /\ pc = "done" \/ (pc = "loop" /\ idx = 1)
    /\ Len(out) < MaxReports
    /\ out' = Append(out, JsonReport)
    /\ UNCHANGED <<pc, idx, locals, results, mtx, notified, timed_out,
                   scanState, rx, cb, deadline_elapsed, history, counters>>

\* ids above 0xFFFF a service can have (uint32_t), up to the largest value
\* the model's integers hold
WideSids ==
    {65536, 65537, 74565, 1048575, 1048576, 11259375, 16777215, 16777216,
     268435455, 268435456, 2147483647}

\* the ServiceInfo of the service of channel c with service id w
ServiceInfoOf(c, w) ==
    [MakeServiceInfo(ServiceOf(c), {}) EXCEPT !.sid = w]

\* the ScanResult of channel c with ensemble id e and service id w
ResultOf(c, e, w) ==
    [channel |-> c,
     frequency_hz |-> getFrequency(c),
     ensemble_id |-> e,
     ensemble_label |-> TrimTrailing(LabelOf(c), {}),
     snr |-> SnrOf(c),
     services |-> <<ServiceInfoOf(c, w)>>]

\* the results of a run that recorded the channels of S, from channel c on;
\* ids[c] is the pair of ensemble id and service id found on channel c
RECURSIVE ResultsOf(_, _, _)
ResultsOf(c, S, ids) ==
    IF c > NumChannels THEN <<>>
    ELSE (IF c \in S THEN <<ResultOf(c, ids[c][1], ids[c][2])>> ELSE <<>>)
         \o ResultsOf(c + 1, S, ids)

\* the state run() returns in when the channels of S carried an ensemble and
\* the others no signal
AfterRun(S, ids) ==
    /\ pc = "done"
    /\ idx = NumChannels + 1
    /\ has_signal = FALSE
    /\ got_sync = FALSE
    /\ serviceList = <<>>
    /\ results = ResultsOf(1, S, ids)
    /\ mtx = "free"
    /\ notified = FALSE
    /\ timed_out = FALSE
    /\ signal_present = (NumChannels \in S)
    /\ synced = (NumChannels \in S)
    /\ current_snr = IF NumChannels \in S THEN SnrOf(NumChannels) ELSE 0
    /\ current_eid = IF NumChannels \in S THEN ids[NumChannels][1] ELSE 0
    /\ current_label = IF NumChannels \in S THEN LabelOf(NumChannels) ELSE <<>>
    /\ detected_sids = IF NumChannels \in S THEN {ids[NumChannels][2]} ELSE {}
    /\ rx = "none"
    /\ cb = NoCb
    /\ deadline_elapsed = FALSE
    /\ wait_ret = FALSE
    /\ presence_seen = FALSE
    /\ sync_seen = FALSE
    /\ outcome = [c \in Channel |->
                     IF c \in S THEN "recorded" ELSE "no_signal"]
    /\ resets = [c \in Channel |-> 1]
    /\ pwaits = [c \in Channel |-> 1]
    /\ swaits = [c \in Channel |-> IF c \in S THEN 1 ELSE 0]
    /\ advances = [c \in Channel |-> 1]
    /\ starts = [c \in Channel |->
                    [m \in Modes |-> IF m = "quick" \/ c \in S THEN 1 ELSE 0]]
    /\ stops = [c \in Channel |->
                    [m \in Modes |-> IF m = "quick" \/ c \in S THEN 1 ELSE 0]]
    /\ out = <<>>

\* the ids each channel carries in the main model
OwnIds == [c \in Channel |-> <<EidOf(c), SidOf(c)>>]

\* the runs a report is rendered after: every set of recorded channels; one
\* recorded channel with every ensemble id of uint16_t; one recorded channel
\* with a service id of more than 16 bits
ReportInputs ==
    {<<S, OwnIds>> : S \in SUBSET Channel}
    \cup {<<{1}, [OwnIds EXCEPT ![1] = <<e, SidOf(1)>>]>> : e \in 0..MaxUint16}
    \cup {<<{1}, [OwnIds EXCEPT ![1] = <<EidOf(1), w>>]>> : w \in WideSids}

\* a scanner whose run() was not entered, or one whose run() has returned
ReportInit ==
    \/ Init
    \/ \E inp \in ReportInputs : AfterRun(inp[1], inp[2])

ReportNext == printJsonReport

\* the report builder on a fresh scanner and after a run
ReportSpec == ReportInit /\ [][ReportNext]_vars

\* ------------------------------------------------ the result assembly
\* labels of at most MaxLabelLen bytes
Labels == UNION {[1..n -> LabelBytes] : n \in 0..MaxLabelLen}

\* a component with its subchannel: the sentinel or a valid id, and a bitrate
Components == [subChId : {-1, 1}, bitrate : {64, 128}]

\* the component lists of a service
ComponentLists == UNION {[1..n -> Components] : n \in 0..MaxComponents}

\* what the snapshot and the service loop can be given on channel 1: an
\* ensemble label, and the service list the receiver returned
CollectInputs ==
    {<<l, <<ServiceOf(1)>>>> : l \in Labels}
    \cup {<<LabelOf(1), <<[ServiceOf(1) EXCEPT !.serviceLabel = l]>>>> :
             l \in Labels}
    \cup {<<LabelOf(1), <<[ServiceOf(1) EXCEPT !.components = cs],
                          ServiceOf(1)>>>> : cs \in ComponentLists}
    \cup {<<LabelOf(1), <<>>>>}

\* run() on channel 1 holding the lock for the snapshot, after both waits
\* succeeded and the service list was queried
AtSnapshot(label, list) ==
    /\ pc = "snapshot"
    /\ idx = 1
    /\ has_signal = TRUE
    /\ got_sync = TRUE
    /\ serviceList = list
    /\ results = <<>>
    /\ mtx = "scanner"
    /\ notified = FALSE
    /\ timed_out = FALSE
    /\ signal_present = TRUE
    /\ synced = TRUE
    /\ current_snr = SnrOf(1)
    /\ current_eid = EidOf(1)
    /\ current_label = label
    /\ detected_sids = {SidOf(1)}
    /\ rx = "full"
    /\ cb = NoCb
    /\ deadline_elapsed = FALSE
    /\ wait_ret = FALSE
    /\ presence_seen = FALSE
    /\ sync_seen = TRUE
    /\ outcome = [c \in Channel |-> "pending"]
    /\ resets = [c \in Channel |-> IF c = 1 THEN 1 ELSE 0]
    /\ pwaits = [c \in Channel |-> IF c = 1 THEN 1 ELSE 0]
    /\ swaits = [c \in Channel |-> IF c = 1 THEN 1 ELSE 0]
    /\ advances = [c \in Channel |-> 0]
    /\ starts = [c \in Channel |-> [m \in Modes |-> IF c = 1 THEN 1 ELSE 0]]
    /\ stops = [c \in Channel |->
                   [m \in Modes |-> IF c = 1 /\ m = "quick" THEN 1 ELSE 0]]
    /\ out = <<>>

CollectInit == \E inp \in CollectInputs : AtSnapshot(inp[1], inp[2])

CollectNext == SnapshotAndRecord

\* the snapshot and the service loop on every label and component list
CollectSpec == CollectInit /\ [][CollectNext]_vars

\* ------------------------------------------------------------- claims
\* the values the reset block writes
ResetValues ==
    /\ signal_present = FALSE
    /\ synced = FALSE
    /\ current_snr = 0
    /\ current_eid = 0
    /\ current_label = <<>>
    /\ detected_sids = {}

\* positions of run() between the dwell and the end of the loop body
CollectPositions ==
    {"query", "snap_lock", "snapshot", "stop_full", "advance"}

\* C1: when run() is about to start the quick-detection receiver of a
\* channel, every field of the scan state holds its reset value, whatever
\* the receivers of earlier channels delivered.
C1_ResetAtPhase1 == pc = "start_quick" => ResetValues

\* C1 witness: phase 1 of the second channel is about to start after the
\* first channel was recorded with an ensemble id and a label.
C1_Witness ==
    /\ pc = "start_quick"
    /\ idx = 2
    /\ Len(results) = 1
    /\ results[1].ensemble_id # 0
    /\ results[1].ensemble_label # <<>>
    /\ results[1].snr # 0

\* C2: while run() takes the lock for the reset and while it resets, no
\* receiver is live, no callback is in progress, and every receiver started
\* so far has been stopped.
C2_StoppedBeforeReset ==
    pc \in {"reset_lock", "reset"} =>
        /\ rx = "none"
        /\ cb = NoCb
        /\ \A c \in Channel : \A m \in Modes : stops[c][m] = starts[c][m]

\* C2 witness: the reset of the second channel after the first channel ran
\* into the sync timeout, both of its receivers stopped.
C2_Witness ==
    /\ pc = "reset"
    /\ idx = 2
    /\ outcome[1] = "no_sync"
    /\ stops[1]["quick"] = 1
    /\ stops[1]["full"] = 1

\* C3: no channel has two results, and the channel whose result has just
\* been appended had a successful presence wait and a synced = true that was
\* delivered before its sync wait returned.
C3_ResultOnlyIfSyncedInTime ==
    /\ \A i \in 1..Len(results) : \A j \in 1..Len(results) :
           results[i].channel = results[j].channel => i = j
    /\ (pc \in {"stop_full", "advance"} /\ Len(results) > 0
            /\ results[Len(results)].channel = idx)
           => (has_signal /\ sync_seen)

\* C4: every field of a result that comes from the scan state is the reset
\* value or a value of the result's own channel, and its services are
\* services of that channel: nothing of another channel is in it.
C4_StateIsolation ==
    \A i \in 1..Len(results) :
        LET r == results[i]
            c == r.channel
        IN  /\ c \in Channel
            /\ r.frequency_hz = getFrequency(c)
            /\ r.ensemble_id \in {0, EidOf(c)}
            /\ r.ensemble_label \in {<<>>, TrimTrailing(LabelOf(c), {})}
            /\ r.snr \in {0, SnrOf(c)}
            /\ \A k \in 1..Len(r.services) : r.services[k].sid = SidOf(c)
            /\ \A d \in Channel \ {c} :
                   /\ r.ensemble_id # EidOf(d)
                   /\ r.ensemble_label # TrimTrailing(LabelOf(d), {})
                   /\ \A k \in 1..Len(r.services) :
                          r.services[k].sid # SidOf(d)

\* C4 witness: channel 1 was recorded with its id and label, and channel 2
\* is recorded with its own id and label.
C4_Witness ==
    /\ Len(results) = 2
    /\ results[1].channel = 1
    /\ results[1].ensemble_id = EidOf(1)
    /\ results[1].ensemble_label = TrimTrailing(LabelOf(1), {})
    /\ results[2].channel = 2
    /\ results[2].ensemble_id = EidOf(2)
    /\ results[2].ensemble_label = TrimTrailing(LabelOf(2), {})

\* C5: under fair scheduling run() reaches the end of the catalog.
C5_Terminates == <>(pc = "done")

\* C5 witness: run() has returned after a channel without signal and a
\* recorded channel.
C5_Witness ==
    /\ pc = "done"
    /\ \E c \in Channel : outcome[c] = "no_signal"
    /\ \E c \in Channel : outcome[c] = "recorded"

\* C6: the channels before the cursor have had exactly one reset, one
\* presence wait, at most one sync wait and one advance; those after it have
\* had none; the cursor moves one entry at a time and ends right after the
\* last entry.
C6_EachChannelOnce ==
    /\ idx \in 1..(NumChannels + 1)
    /\ (pc = "done" => idx = NumChannels + 1)
    /\ \A c \in Channel :
        /\ resets[c] <= 1 /\ pwaits[c] <= 1 /\ swaits[c] <= 1
        /\ advances[c] <= 1
        /\ (c < idx =>
               /\ resets[c] = 1 /\ pwaits[c] = 1 /\ advances[c] = 1
               /\ outcome[c] \in {"no_signal", "no_sync", "recorded"}
               /\ (outcome[c] = "no_signal" => swaits[c] = 0)
               /\ (outcome[c] # "no_signal" => swaits[c] = 1))
        /\ (c = idx => advances[c] = 0 /\ outcome[c] = "pending")
        /\ (c > idx =>
               /\ resets[c] = 0 /\ pwaits[c] = 0 /\ swaits[c] = 0
               /\ advances[c] = 0 /\ outcome[c] = "pending")

\* C6 witness: the run is over, one channel ended without signal and one
\* without sync.
C6_Witness ==
    /\ pc = "done"
    /\ \E c \in Channel : outcome[c] = "no_signal"
    /\ \E c \in Channel : outcome[c] = "no_sync"

\* C7: a channel whose presence wait succeeded and to which no synced = true
\* was delivered before the sync wait returned takes the no-sync path, so
\* it never reaches the collection; and every receiver is stopped at most
\* once, exactly once by the time its channel is left.
C7_NoSyncStopsOnce ==
    /\ (has_signal /\ ~sync_seen) => pc \notin CollectPositions
    /\ \A c \in Channel : \A m \in Modes :
           /\ stops[c][m] <= starts[c][m]
           /\ starts[c][m] <= 1
           /\ (c < idx => stops[c][m] = starts[c][m])

\* C8: when run() branches on has_signal, a signal_present = true that was
\* delivered before the presence deadline has made has_signal true, and
\* has_signal is false only if the wait returned false.
C8_PresenceDecidesNoSignal ==
    pc = "branch_signal" =>
        /\ (presence_seen => has_signal)
        /\ (~has_signal => ~wait_ret)

\* C9: the flag run() branches on is the value the predicate had when the
\* wait returned.
C9_BranchOnWaitOutcome ==
    /\ (pc \in {"stop_quick", "branch_signal"} => has_signal = wait_ret)
    /\ (pc = "branch_sync" => got_sync = wait_ret)

\* the fields of the scan state a step changes
FieldsChanged ==
    {f \in 1..6 : scanState[f] # scanState'[f]}

\* C10: a callback that returns changes at most its own field of the scan
\* state, adds at most one id to the service-id set, leaves the results
\* alone, and wakes a waiter only if it is onSyncChange or onSignalPresence.
C10_SetterFrame ==
    [][ (cb = Running /\ cb' = NoCb) =>
          /\ results' = results
          /\ Cardinality(FieldsChanged) <= 1
          /\ detected_sids \subseteq detected_sids'
          /\ Cardinality(detected_sids' \ detected_sids) <= 1
          /\ (NotifySNR => FieldsChanged \subseteq {3})
          /\ (NotifySyncChange => FieldsChanged \subseteq {2})
          /\ (NotifySignalPresence => FieldsChanged \subseteq {1})
          /\ (NotifyServiceDetected => FieldsChanged \subseteq {6})
          /\ (NotifyNewEnsemble => FieldsChanged \subseteq {4})
          /\ (NotifySetEnsembleLabel => FieldsChanged \subseteq {5})
          /\ (notified' # notified =>
                  (NotifySyncChange \/ NotifySignalPresence))
      ]_vars

\* C10 witness: a waiter blocked in the sync wait has been notified, after
\* callbacks set the SNR, the ensemble and a service id.
C10_Witness ==
    /\ pc = "p2_blocked"
    /\ notified
    /\ current_snr # 0
    /\ current_eid # 0
    /\ current_label # <<>>
    /\ detected_sids # {}

\* positions of run() inside a lock scope: the reset, the predicate and the
\* return of the two waits, the clear of synced, the read of synced, the
\* snapshot
LockedPositions ==
    {"reset", "p1_check", "clear_sync", "p2_check", "read_sync", "snapshot"}

\* run() is inside one of its lock scopes
ScannerHolds == pc \in LockedPositions

\* the receiver thread is inside the body of a callback
EngineHolds == cb = Running

\* the steps of run() that read or write a field of the scan state
ScannerAccess ==
    \/ ResetState \/ ClearSync \/ ReadSync \/ SnapshotAndRecord
    \/ PresenceWaitBlock \/ PresenceWaitReturn
    \/ SyncWaitBlock \/ SyncWaitReturn

\* C11: run() is inside a lock scope exactly when it holds the mutex, the
\* receiver thread is inside a callback body exactly when it holds the mutex,
\* the two never hold it together, and every step that reads or writes a
\* field of the scan state is taken by the thread that holds the mutex.
C11_LockDiscipline ==
    [][ /\ (ScannerHolds <=> mtx = "scanner")
        /\ (EngineHolds <=> mtx = "engine")
        /\ ~(ScannerHolds /\ EngineHolds)
        /\ (ScannerHolds' <=> mtx' = "scanner")
        /\ (EngineHolds' <=> mtx' = "engine")
        /\ ~(ScannerHolds' /\ EngineHolds')
        /\ (ScannerAccess => (mtx = "scanner" /\ ~EngineHolds))
        /\ (CallbackReturn => (mtx = "engine" /\ ~ScannerHolds))
        /\ (scanState' # scanState =>
               \/ (mtx = "scanner" /\ ScannerHolds /\ ~EngineHolds)
               \/ (mtx = "engine" /\ EngineHolds /\ ~ScannerHolds))
      ]_vars

\* C11 witness: run() holds the mutex for the snapshot while a callback of
\* the full-mode receiver is blocked on it.
C11_Witness ==
    /\ pc = "snapshot"
    /\ mtx = "scanner"
    /\ cb = Called
    /\ rx = "full"

\* C12: every report written, before a run or after one, carries the length
\* of the catalog as its channel count, and as its ensemble count the number
\* of ScanResults accumulated, which is the number of entries of its results.
C12_ReportCounts ==
    \A n \in 1..Len(out) :
        /\ out[n].scan.channels_scanned = Cardinality(Channel)
        /\ out[n].scan.ensembles_found = Len(results)
        /\ Len(out[n].results) = Len(results)
        /\ \A i \in 1..Len(results) :
               out[n].results[i].channel = results[i].channel

\* C12 witness: a report written before run() was entered: no channel was
\* visited, and the channel count is the length of the catalog.
C12_Witness ==
    /\ pc = "loop"
    /\ idx = 1
    /\ \A c \in Channel : resets[c] = 0
    /\ Len(out) = 1
    /\ out[1].scan.channels_scanned = NumChannels
    /\ out[1].scan.ensembles_found = 0
    /\ out[1].results = <<>>

\* the characters '0'..'9' and 'A'..'F'
UpperHex == (48..57) \cup (65..70)

\* the number a string of uppercase hexadecimal digits denotes
RECURSIVE HexValue(_)
HexValue(ds) ==
    IF ds = <<>> THEN 0
    ELSE 16 * HexValue(SubSeq(ds, 1, Len(ds) - 1))
         + (IF ds[Len(ds)] <= 57 THEN ds[Len(ds)] - 48 ELSE ds[Len(ds)] - 55)

\* the string str renders the id v: "0x", then uppercase hexadecimal digits
\* whose value is v, four of them when v fits 16 bits, and more than four,
\* none of them a padding zero, when it does not
RendersId(str, v) ==
    LET ds == SubSeq(str, 3, Len(str))
    IN  /\ Len(str) >= 3
        /\ str[1] = 48 /\ str[2] = 120
        /\ \A k \in 1..Len(ds) : ds[k] \in UpperHex
        /\ HexValue(ds) = v
        /\ (v <= MaxUint16 => Len(ds) = 4)
        /\ (v > MaxUint16 => Len(ds) > 4 /\ ds[1] # 48)
        /\ (v = 43981 => str = <<48, 120, 65, 66, 67, 68>>)
        /\ (v = 1 => str = <<48, 120, 48, 48, 48, 49>>)

\* C13: in every report written, the ensemble id and every service id are
\* rendered as "0x" and the uppercase hexadecimal digits of the id, padded
\* with zeros to four digits, and wider than four digits, with no digit
\* lost, for an id above 0xFFFF.
C13_HexRendering ==
    \A n \in 1..Len(out) : \A i \in 1..Len(results) :
        /\ RendersId(out[n].results[i].ensemble.id, results[i].ensemble_id)
        /\ \A k \in 1..Len(results[i].services) :
               RendersId(out[n].results[i].services[k].sid,
                         results[i].services[k].sid)

\* C13 witness: a report that renders the ensemble id 0x1 as "0x0001" and
\* the service id 0x7FFFFFFF as "0x7FFFFFFF".
C13_Witness ==
    /\ Len(out) = 1
    /\ Len(results) = 1
    /\ results[1].services[1].sid = 2147483647
    /\ out[1].results[1].services[1].sid =
           <<48, 120, 55, 70, 70, 70, 70, 70, 70, 70>>
    /\ results[1].ensemble_id = 1
    /\ out[1].results[1].ensemble.id = <<48, 120, 48, 48, 48, 49>>

\* the whitespace and control characters a label is padded with: tab, line
\* feed, vertical tab, form feed, carriage return, blank
Blank == {9, 10, 11, 12, 13, 32}

\* out is the label lab without a trailing run of blanks, and nothing else
\* of lab is missing
Normalized(lab, res) ==
    /\ Len(res) <= Len(lab)
    /\ res = SubSeq(lab, 1, Len(res))
    /\ \A k \in (Len(res) + 1)..Len(lab) : lab[k] \in Blank
    /\ (res = <<>> \/ res[Len(res)] \notin Blank)

\* C14: the ensemble label and every service label of a result that has just
\* been assembled are the labels delivered without their trailing run of
\* whitespace/control characters: a prefix that lost nothing but blanks and
\* is empty or ends in a character that is not a blank (so that normalizing
\* it again changes nothing).
C14_TrimOnlyTrailingBlanks ==
    (pc = "stop_full" /\ Len(results) = 1) =>
        /\ Normalized(current_label, results[1].ensemble_label)
        /\ Len(results[1].services) = Len(serviceList)
        /\ \A k \in 1..Len(serviceList) :
               Normalized(serviceList[k].serviceLabel,
                          results[1].services[k].label)

\* positions of run() in the sync wait
SyncWaitPositions == {"p2_lock", "p2_check", "p2_blocked"}

\* C15: the step that clears synced is taken with the quick-detection
\* receiver stopped and the full-mode receiver not yet started, and changes
\* no other field of the scan state; when the full-mode receiver is started
\* synced is false; and a synced that is true during the sync wait, or when
\* the wait returns, was set by a callback of the full-mode receiver.
C15_ClearOnlySynced ==
    [][ /\ (pc = "clear_sync" =>
               /\ rx = "none" /\ cb = NoCb
               /\ stops[idx]["quick"] = 1
               /\ starts[idx]["full"] = 0
               /\ ~synced'
               /\ FieldsChanged \subseteq {2})
        /\ (pc = "start_full" => (~synced /\ rx = "none" /\ rx' = "full"))
        /\ (pc \in SyncWaitPositions =>
               (rx = "full" /\ (synced => sync_seen)))
        /\ (pc' \in SyncWaitPositions =>
               (rx' = "full" /\ (synced' => sync_seen')))
        /\ (SyncWaitReturn => (wait_ret' => sync_seen))
      ]_vars

\* C15 witness: synced has been cleared and the full-mode receiver is about
\* to be started, while the other fields keep what the quick-detection
\* receiver delivered.
C15_Witness ==
    /\ pc = "start_full"
    /\ ~synced
    /\ signal_present
    /\ current_snr # 0
    /\ current_eid # 0
    /\ current_label # <<>>
    /\ detected_sids # {}

\* C16: a step either leaves the result sequence as it is or appends one
\* ScanResult for the current channel at its end, which only the step after
\* the snapshot does, for a channel run() read as synced and that has no
\* result yet; the results are in catalog order.
C16_AppendOnly ==
    [][ /\ \/ results' = results
           \/ /\ pc = "snapshot"
              /\ got_sync
              /\ \A i \in 1..Len(results) : results[i].channel # idx
              /\ Len(results') = Len(results) + 1
              /\ SubSeq(results', 1, Len(results)) = results
              /\ results'[Len(results')].channel = idx
        /\ \A i \in 1..Len(results') : \A j \in 1..Len(results') :
               i < j => results'[i].channel < results'[j].channel
      ]_vars

\* C16 witness: the result of channel 1 was appended before its ensemble id
\* and SNR were delivered; they have been delivered since, the receiver is
\* not yet stopped, and the result is as it was appended.
C16_Witness ==
    /\ pc = "stop_full"
    /\ idx = 1
    /\ rx = "full"
    /\ Len(results) = 1
    /\ results[1].ensemble_id = 0
    /\ results[1].snr = 0
    /\ current_eid = EidOf(1)
    /\ current_snr = SnrOf(1)

\* the positions of the components of cs that have a valid subchannel
ValidAt(cs) == {i \in 1..Len(cs) : cs[i].subChId # -1}

\* b is the bitrate of the component of cs at the least valid position, or 0
\* when there is none
IsFirstValidBitrate(cs, b) ==
    IF ValidAt(cs) = {} THEN b = 0
    ELSE \E i \in ValidAt(cs) :
            /\ \A j \in ValidAt(cs) : i <= j
            /\ b = cs[i].bitrate

\* C17: in a result that has just been assembled, every service of the list
\* the receiver returned has one ServiceInfo, in the same order, whose
\* bitrate is that of the first component with a valid subchannel, and 0
\* when the service has no component or none with a valid subchannel.
C17_FirstValidBitrate ==
    (pc = "stop_full" /\ Len(results) = 1) =>
        /\ Len(results[1].services) = Len(serviceList)
        /\ \A k \in 1..Len(serviceList) :
               /\ results[1].services[k].sid = serviceList[k].serviceId
               /\ IsFirstValidBitrate(serviceList[k].components,
                                      results[1].services[k].bitrate_kbps)

\* C17 witness: a service whose components are one without a subchannel at
\* 128 kbit/s, then a valid one at 64 and a valid one at 128: the bitrate
\* recorded is 64, neither the maximum nor the sum.
C17_Witness ==
    /\ pc = "stop_full"
    /\ Len(results) = 1
    /\ Len(serviceList) = 2
    /\ serviceList[1].components =
           << [subChId |-> -1, bitrate |-> 128],
              [subChId |-> 1, bitrate |-> 64],
              [subChId |-> 1, bitrate |-> 128] >>
    /\ results[1].services[1].bitrate_kbps = 64

\* the receivers that were started and not yet stopped
LiveInstances ==
    {inst \in Channel \X Modes :
        starts[inst[1]][inst[2]] > stops[inst[1]][inst[2]]}

\* C18: at most one receiver is started and not yet stopped, and it is the
\* one run() holds for the current channel and phase; none is live when a
\* receiver is about to be started; a callback is in progress only while
\* that receiver is live.
C18_OneInstance ==
    /\ Cardinality(LiveInstances) <= 1
    /\ (rx = "none" => LiveInstances = {})
    /\ (rx # "none" => (idx \in Channel /\ LiveInstances = {<<idx, rx>>}))
    /\ (pc \in {"start_quick", "start_full"} => LiveInstances = {})
    /\ (pc = "start_full" => stops[idx]["quick"] = 1)
    /\ (cb # NoCb => rx # "none")

\* C18 witness: a callback of the full-mode receiver of channel 2 is running
\* during the sync wait, after both receivers of channel 1 and the
\* quick-detection receiver of channel 2 were stopped.
C18_Witness ==
    /\ pc = "p2_blocked"
    /\ idx = 2
    /\ rx = "full"
    /\ cb = Running
    /\ stops[1]["quick"] = 1
    /\ stops[1]["full"] = 1
    /\ stops[2]["quick"] = 1

\* positions of run() at a call of rx.stop()
StopPositions == {"stop_quick", "stop_nosync", "stop_full"}

\* positions of run() at a call that starts a receiver, sleeps or queries
\* the receiver: the retune and settle delay, the two restart() calls, the
\* dwell, getServiceList()
CallPositions == {"retune", "start_quick", "start_full", "branch_sync", "query"}

\* C19: run() holds the mutex only inside its lock scopes and never at a
\* call of stop(), at the start of a receiver, in a sleep or at the query of
\* the service list; at a call of stop() a callback in progress is not
\* blocked by run(): the mutex is free for it or it holds the mutex itself;
\* and under fair scheduling a callback blocked on the mutex gets it.
C19_NoLockAcrossCalls ==
    /\ [](mtx = "scanner" => pc \in LockedPositions)
    /\ [](pc \in StopPositions \cup CallPositions => mtx # "scanner")
    /\ [](pc \in StopPositions =>
             /\ (cb = Called => mtx = "free")
             /\ (cb = Running => mtx = "engine"))
    /\ ((cb = Called) ~> (cb = Running))

\* C19 witness: run() has released the mutex after the snapshot and is at
\* rx.stop() while a callback that was blocked during the snapshot has not
\* yet taken the mutex.
C19_Witness ==
    /\ pc = "stop_full"
    /\ cb = Called
    /\ mtx = "free"
    /\ rx = "full"

\* positions of run() from the branch on got_sync to the snapshot
DecidedPositions == {"branch_sync", "query", "snap_lock", "snapshot"}

\* C20: once run() has read synced as true, no step takes it off the path
\* to the snapshot, whatever the callbacks write meanwhile; the step that
\* leaves the snapshot appends a result of the current channel that carries
\* the ensemble id, the trimmed ensemble label and the SNR the scan state
\* holds at that step; and the channel is left as recorded, its result in
\* the sequence.
C20_DecidedSyncIsRecorded ==
    [][ /\ (got_sync /\ pc \in DecidedPositions) =>
               (got_sync' /\ pc' \in DecidedPositions \cup {"stop_full"})
        /\ (pc = "snapshot" /\ pc' # pc) =>
               /\ pc' = "stop_full"
               /\ Len(results') = Len(results) + 1
               /\ results'[Len(results')].channel = idx
               /\ results'[Len(results')].ensemble_id = current_eid
               /\ results'[Len(results')].ensemble_label =
                      TrimTrailing(current_label, {})
               /\ results'[Len(results')].snr = current_snr
        /\ (got_sync /\ pc \in {"stop_full", "advance"}) =>
               /\ \E i \in 1..Len(results) : results[i].channel = idx
               /\ (pc' = "loop" => outcome'[idx] = "recorded")
      ]_vars

\* C20 witness: synced and signal_present were set back to false before the
\* snapshot took the lock (the callback invoked since is still blocked), and
\* the result of the channel has been appended with the ensemble id the scan
\* state held.
C20_Witness ==
    /\ pc = "stop_full"
    /\ idx = 1
    /\ cb = Called
    /\ ~synced
    /\ ~signal_present
    /\ Len(results) = 1
    /\ results[1].channel = 1
    /\ results[1].ensemble_id = EidOf(1)
    /\ results[1].snr = SnrOf(1)

====
